---- MODULE Spec2Model ----
(***************************************************************************)
(* Model of backend/app.py: the /api/analyze and /api/enhance request      *)
(* handlers, the text extraction helpers and best_effort_json.             *)
(*                                                                         *)
(* A Python str is the sequence of its characters (one-character strings). *)
(* A JSON value produced by json.loads is a tagged record:                 *)
(*   [t |-> "str", v |-> <<chars>>]     str                                *)
(*   [t |-> "num", v |-> n]             int                                *)
(*   [t |-> "null", v |-> 0]            None                               *)
(*   [t |-> "arr", v |-> <<values>>]    list                               *)
(*   [t |-> "obj", v |-> <<[k, v]>>]    dict, pairs in insertion order     *)
(***************************************************************************)
EXTENDS Integers, Sequences, FiniteSets, TLC

\* ------------------------------------------------------------------------
\* Python str primitives
\* ------------------------------------------------------------------------

Whitespace == {" ", "\n"}

Digits == {"1"}

LowerMap ==
    [A |-> "a", B |-> "b", C |-> "c", D |-> "d", E |-> "e", F |-> "f",
       G |-> "g", H |-> "h", I |-> "i", J |-> "j", K |-> "k", L |-> "l",
       M |-> "m", N |-> "n", O |-> "o", P |-> "p", Q |-> "q", R |-> "r",
       S |-> "s", T |-> "t", U |-> "u", V |-> "v", W |-> "w", X |-> "x",
       Y |-> "y", Z |-> "z"]

\* str.lower(), character by character
LowerChar(c) == IF c \in DOMAIN LowerMap THEN LowerMap[c] ELSE c

Lower(s) == [i \in 1..Len(s) |-> LowerChar(s[i])]

\* str.endswith(suffix)
EndsWith(s, suffix) ==
    /\ Len(s) >= Len(suffix)
    /\ SubSeq(s, Len(s) - Len(suffix) + 1, Len(s)) = suffix

\* str.find(c): 0-based index of the first occurrence, -1 when absent.
Find(text, c) ==
    IF \E i \in 1..Len(text) : text[i] = c
    THEN (CHOOSE i \in 1..Len(text) :
             /\ text[i] = c
             /\ \A j \in 1..(i - 1) : text[j] # c) - 1
    ELSE -1

\* rfind mistaken for find: the first occurrence
RFindFirst(text, c) == Find(text, c)

\* str.rfind(c): 0-based index of the last occurrence, -1 when absent.
RFind(text, c) ==
    IF \E i \in 1..Len(text) : text[i] = c
    THEN (CHOOSE i \in 1..Len(text) :
             /\ text[i] = c
             /\ \A j \in (i + 1)..Len(text) : text[j] # c) - 1
    ELSE -1

\* text[a:b] for 0 <= a, 0 <= b (0-based, b exclusive).
Slice(text, a, b) == SubSeq(text, a + 1, IF b > Len(text) THEN Len(text) ELSE b)

\* str.strip()
Strip(s) ==
    LET keep == {i \in 1..Len(s) : s[i] \notin Whitespace}
    IN IF keep = {} THEN <<>>
       ELSE SubSeq(s, CHOOSE i \in keep : \A j \in keep : i <= j,
                      CHOOSE i \in keep : \A j \in keep : j <= i)

RECURSIVE JoinStr(_, _)
\* sep.join(parts) for a sequence of strs.
JoinStr(sep, parts) ==
    IF parts = <<>> THEN <<>>
    ELSE IF Len(parts) = 1 THEN parts[1]
    ELSE parts[1] \o sep \o JoinStr(sep, Tail(parts))

\* ------------------------------------------------------------------------
\* JSON values
\* ------------------------------------------------------------------------

StrV(s) == [t |-> "str", v |-> s]
NumV(n) == [t |-> "num", v |-> n]
NullV == [t |-> "null", v |-> 0]
ArrV(a) == [t |-> "arr", v |-> a]
ObjV(p) == [t |-> "obj", v |-> p]

\* dict operations on the pair list of an "obj" value
Keys(d) == {d.v[i].k : i \in 1..Len(d.v)}

HasKey(d, key) == key \in Keys(d)

\* d[key]
Get(d, key) == d.v[CHOOSE i \in 1..Len(d.v) : d.v[i].k = key].v

\* d[key] = val: an existing key keeps its place, a new one goes last.
Put(d, key, val) ==
    IF HasKey(d, key)
    THEN ObjV([i \in 1..Len(d.v) |->
                 IF d.v[i].k = key THEN [k |-> key, v |-> val] ELSE d.v[i]])
    ELSE ObjV(Append(d.v, [k |-> key, v |-> val]))

\* ------------------------------------------------------------------------
\* json.loads
\* ------------------------------------------------------------------------

ParseFail == [ok |-> FALSE, val |-> NullV, pos |-> 0]

ParseOk(val, pos) == [ok |-> TRUE, val |-> val, pos |-> pos]

RECURSIVE SkipWs(_, _)
\* first position >= i that holds no whitespace
SkipWs(s, i) ==
    IF i <= Len(s) /\ s[i] \in Whitespace THEN SkipWs(s, i + 1) ELSE i

RECURSIVE DigitsEnd(_, _)
DigitsEnd(s, i) ==
    IF i <= Len(s) /\ s[i] \in Digits THEN DigitsEnd(s, i + 1) ELSE i

RECURSIVE DigitsValue(_)
DigitsValue(ds) ==
    IF ds = <<>> THEN 0
    ELSE 10 * DigitsValue(SubSeq(ds, 1, Len(ds) - 1)) + 1

\* a string literal opening at s[i] = '"' (the alphabet has no backslash)
ParseString(s, i) ==
    IF \E k \in (i + 1)..Len(s) : s[k] = "\""
    THEN LET k == CHOOSE k \in (i + 1)..Len(s) :
                     /\ s[k] = "\""
                     /\ \A j \in (i + 1)..(k - 1) : s[j] # "\""
         IN ParseOk(StrV(SubSeq(s, i + 1, k - 1)), k + 1)
    ELSE ParseFail

ParseNumber(s, i) ==
    LET e == DigitsEnd(s, i)
    IN ParseOk(NumV(DigitsValue(SubSeq(s, i, e - 1))), e)

ParseNull(s, i) ==
    IF i + 3 <= Len(s) /\ SubSeq(s, i, i + 3) = <<"n", "u", "l", "l">>
    THEN ParseOk(NullV, i + 4)
    ELSE ParseFail

RECURSIVE ParseValue(_, _)
RECURSIVE ParseMembers(_, _, _)
RECURSIVE ParseElements(_, _, _)

\* the members of an object from position i (a key is expected there)
ParseMembers(s, i, acc) ==
    IF i > Len(s) \/ s[i] # "\"" THEN ParseFail
    ELSE LET key == ParseString(s, i)
         IN IF ~key.ok THEN ParseFail
            ELSE LET c == SkipWs(s, key.pos)
                 IN IF c > Len(s) \/ s[c] # ":" THEN ParseFail
                    ELSE LET val == ParseValue(s, c + 1)
                         IN IF ~val.ok THEN ParseFail
                            ELSE LET e == SkipWs(s, val.pos)
                                     acc2 == Put(acc, key.val.v, val.val)
                                 IN IF e > Len(s) THEN ParseFail
                                    ELSE IF s[e] = "}" THEN ParseOk(acc2, e + 1)
                                    ELSE IF s[e] = ","
                                         THEN ParseMembers(s, SkipWs(s, e + 1), acc2)
                                    ELSE ParseFail

\* the elements of an array from position i (a value is expected there)
ParseElements(s, i, acc) ==
    LET val == ParseValue(s, i)
    IN IF ~val.ok THEN ParseFail
       ELSE LET e == SkipWs(s, val.pos)
                acc2 == Append(acc, val.val)
            IN IF e > Len(s) THEN ParseFail
               ELSE IF s[e] = "]" THEN ParseOk(ArrV(acc2), e + 1)
               ELSE IF s[e] = "," THEN ParseElements(s, e + 1, acc2)
               ELSE ParseFail

ParseObject(s, i) ==
    LET m == SkipWs(s, i + 1)
    IN IF m <= Len(s) /\ s[m] = "}" THEN ParseOk(ObjV(<<>>), m + 1)
       ELSE ParseMembers(s, m, ObjV(<<>>))

ParseArray(s, i) ==
    LET m == SkipWs(s, i + 1)
    IN IF m <= Len(s) /\ s[m] = "]" THEN ParseOk(ArrV(<<>>), m + 1)
       ELSE ParseElements(s, m, <<>>)

\* one JSON value, leading whitespace skipped
ParseValue(s, i) ==
    LET j == SkipWs(s, i)
    IN IF j > Len(s) THEN ParseFail
       ELSE IF s[j] = "{" THEN ParseObject(s, j)
       ELSE IF s[j] = "[" THEN ParseArray(s, j)
       ELSE IF s[j] = "\"" THEN ParseString(s, j)
       ELSE IF s[j] \in Digits THEN ParseNumber(s, j)
       ELSE IF s[j] = "n" THEN ParseNull(s, j)
       ELSE ParseFail

\* json.loads(s): [ok |-> FALSE] stands for json.JSONDecodeError
JsonLoads(s) ==
    LET r == ParseValue(s, 1)
    IN IF r.ok /\ SkipWs(s, r.pos) > Len(s)
       THEN [ok |-> TRUE, val |-> r.val]
       ELSE [ok |-> FALSE, val |-> NullV]

\* best_effort_json(text): [ok |-> FALSE] stands for the ValueError raised
best_effort_json(text) ==
    IF text = <<>> THEN [ok |-> FALSE, val |-> NullV]
    ELSE LET start == Find(text, "{")
             end == RFind(text, "}")
         IN IF start = -1 \/ end = -1 \/ end <= start
            THEN [ok |-> FALSE, val |-> NullV]
            ELSE JsonLoads(Slice(text, start, end + 1))

\* ------------------------------------------------------------------------
\* String literals of app.py
\* ------------------------------------------------------------------------

KEY_error ==
    <<"e", "r", "r", "o", "r">>

KEY_keyword_analysis ==
    <<"k", "e", "y", "w", "o", "r", "d", "_", "a", "n", "a", "l", "y", "s",
      "i", "s">>

KEY_keyword_analysis_text ==
    <<"k", "e", "y", "w", "o", "r", "d", "_", "a", "n", "a", "l", "y", "s",
      "i", "s", "_", "t", "e", "x", "t">>

KEY_present ==
    <<"p", "r", "e", "s", "e", "n", "t">>

KEY_missing ==
    <<"m", "i", "s", "s", "i", "n", "g">>

KEY_density_comment ==
    <<"d", "e", "n", "s", "i", "t", "y", "_", "c", "o", "m", "m", "e", "n",
      "t">>

KEY_enhanced_cv_md ==
    <<"e", "n", "h", "a", "n", "c", "e", "d", "_", "c", "v", "_", "m", "d">>

KEY_file_name ==
    <<"f", "i", "l", "e", "_", "n", "a", "m", "e">>

MSG_not_configured ==
    <<"A", "I", " ", "m", "o", "d", "e", "l", " ", "i", "s", " ", "n", "o",
      "t", " ", "c", "o", "n", "f", "i", "g", "u", "r", "e", "d", " ", "o",
      "n", " ", "t", "h", "e", " ", "s", "e", "r", "v", "e", "r", ".">>

MSG_no_file_part ==
    <<"N", "o", " ", "f", "i", "l", "e", " ", "p", "a", "r", "t">>

MSG_no_selected_file ==
    <<"N", "o", " ", "s", "e", "l", "e", "c", "t", "e", "d", " ", "f", "i",
      "l", "e">>

MSG_insufficient_text ==
    <<"C", "o", "u", "l", "d", " ", "n", "o", "t", " ", "e", "x", "t", "r",
      "a", "c", "t", " ", "s", "u", "f", "f", "i", "c", "i", "e", "n", "t",
      " ", "t", "e", "x", "t", ".">>

MSG_analysis_failed ==
    <<"A", "I", " ", "a", "n", "a", "l", "y", "s", "i", "s", " ", "f", "a",
      "i", "l", "e", "d", ".">>

MSG_enhancement_failed ==
    <<"A", "I", " ", "e", "n", "h", "a", "n", "c", "e", "m", "e", "n", "t",
      " ", "f", "a", "i", "l", "e", "d", ".">>

DEFAULT_file_name ==
    <<"C", "a", "r", "e", "e", "r", "i", "_", "E", "n", "h", "a", "n", "c",
      "e", "d", "_", "C", "V", ".", "p", "d", "f">>

EXT_pdf ==
    <<".", "p", "d", "f">>

EXT_docx ==
    <<".", "d", "o", "c", "x">>

LIT_present ==
    <<"P", "r", "e", "s", "e", "n", "t", ":", " ">>

LIT_missing ==
    <<"M", "i", "s", "s", "i", "n", "g", ":", " ">>

LIT_bar ==
    <<" ", "|", " ">>

LIT_comma ==
    <<",", " ">>

LIT_None ==
    <<"N", "o", "n", "e">>

\* the key the prompts ask the model to put its advice under
KEY_suggestions ==
    <<"s", "u", "g", "g", "e", "s", "t", "i", "o", "n", "s">>

\* ------------------------------------------------------------------------
\* Python operations the handlers apply to parsed values
\* ------------------------------------------------------------------------

DigitChar(d) == <<"0", "1", "2", "3", "4", "5", "6", "7", "8", "9">>[d + 1]

RECURSIVE IntStr(_)
\* str(n) for n >= 0
IntStr(n) == IF n < 10 THEN <<DigitChar(n)>> ELSE IntStr(n \div 10) \o <<DigitChar(n % 10)>>

RECURSIVE PyRepr(_)
\* repr(v) (the alphabet has no quote and no backslash inside a str)
PyRepr(v) ==
    CASE v.t = "str" -> <<"'">> \o v.v \o <<"'">>
      [] v.t = "num" -> IntStr(v.v)
      [] v.t = "null" -> LIT_None
      [] v.t = "arr" ->
           <<"[">> \o JoinStr(LIT_comma, [i \in 1..Len(v.v) |-> PyRepr(v.v[i])]) \o <<"]">>
      [] v.t = "obj" ->
           <<"{">> \o JoinStr(LIT_comma,
                        [i \in 1..Len(v.v) |->
                            <<"'">> \o v.v[i].k \o <<"'", ":", " ">> \o PyRepr(v.v[i].v)])
                   \o <<"}">>

\* str(v), as an f-string field formats it
PyStr(v) == IF v.t = "str" THEN v.v ELSE PyRepr(v)

\* sep.join(v): iterates a list, the characters of a str or the keys of a
\* dict; [ok |-> FALSE] stands for the TypeError raised for a non-iterable
\* or for an item that is no str.
PyJoin(sep, v) ==
    CASE v.t = "arr" ->
           IF \A i \in 1..Len(v.v) : v.v[i].t = "str"
           THEN [ok |-> TRUE, s |-> JoinStr(sep, [i \in 1..Len(v.v) |-> v.v[i].v])]
           ELSE [ok |-> FALSE, s |-> <<>>]
      [] v.t = "str" ->
           [ok |-> TRUE, s |-> JoinStr(sep, [i \in 1..Len(v.v) |-> <<v.v[i]>>])]
      [] v.t = "obj" ->
           [ok |-> TRUE, s |-> JoinStr(sep, [i \in 1..Len(v.v) |-> v.v[i].k])]
      [] OTHER -> [ok |-> FALSE, s |-> <<>>]

\* d.get(key, default)
GetOr(d, key, default) == IF HasKey(d, key) THEN Get(d, key) ELSE default

\* setdefault mistaken for an assignment
SetDefaultOverwrites(d, key, default) == Put(d, key, default)

\* d.setdefault(key, default)
SetDefault(d, key, default) == IF HasKey(d, key) THEN d ELSE Put(d, key, default)

\* jsonify({"error": msg})
ErrorBody(msg) == ObjV(<<[k |-> KEY_error, v |-> StrV(msg)]>>)

\* the summary stored over keyword_analysis instead of under its own key
AnalyzePostProcessOverwrites(p) ==
    LET ka == GetOr(p, KEY_keyword_analysis, NullV)
    IN IF ka.t = "obj"
       THEN LET pres == PyJoin(LIT_comma, GetOr(ka, KEY_present, ArrV(<<>>)))
                miss == PyJoin(LIT_comma, GetOr(ka, KEY_missing, ArrV(<<>>)))
                dens == PyStr(GetOr(ka, KEY_density_comment, StrV(<<>>)))
            IN IF pres.ok /\ miss.ok
               THEN [ok |-> TRUE,
                     val |-> Put(p, KEY_keyword_analysis,
                                 StrV(LIT_present \o pres.s \o LIT_bar
                                      \o LIT_missing \o miss.s \o LIT_bar \o dens))]
               ELSE [ok |-> FALSE, val |-> NullV]
       ELSE [ok |-> TRUE, val |-> p]

\* analyze_cv, lines 175-181: the keyword_analysis_text fallback.
\* [ok |-> FALSE] stands for the exception raised inside the try block.
AnalyzePostProcess(p) ==
    LET ka == GetOr(p, KEY_keyword_analysis, NullV)
    IN IF ka.t = "obj"
       THEN LET pres == PyJoin(LIT_comma, GetOr(ka, KEY_present, ArrV(<<>>)))
                miss == PyJoin(LIT_comma, GetOr(ka, KEY_missing, ArrV(<<>>)))
                dens == PyStr(GetOr(ka, KEY_density_comment, StrV(<<>>)))
            IN IF pres.ok /\ miss.ok
               THEN [ok |-> TRUE,
                     val |-> Put(p, KEY_keyword_analysis_text,
                                 StrV(LIT_present \o pres.s \o LIT_bar
                                      \o LIT_missing \o miss.s \o LIT_bar \o dens))]
               ELSE [ok |-> FALSE, val |-> NullV]
       ELSE [ok |-> TRUE, val |-> p]

\* enhance_cv, lines 216-220: the mandatory field and the default file name.
EnhancePostProcess(p) ==
    IF ~HasKey(p, KEY_enhanced_cv_md)
    THEN [ok |-> FALSE, val |-> NullV]
    ELSE [ok |-> TRUE, val |-> SetDefault(p, KEY_file_name, StrV(DEFAULT_file_name))]

\* ------------------------------------------------------------------------
\* Text extraction
\* ------------------------------------------------------------------------

MinTextLen == 50

\* An uploaded file: fmt is the format its bytes really have, parts the
\* pages (pdf) or paragraphs (docx) a reader of that format finds; a page's
\* extract_text() returns text ("text"), returns None ("none") or raises
\* ("raise").
Page(out, t) == [out |-> out, text |-> t]

\* extract_text_from_pdf: a reader failure yields "", a page that raises is
\* skipped, None counts as "", the pages are joined by newlines and stripped.
extract_text_from_pdf(file) ==
    IF file.fmt # "pdf" THEN <<>>
    ELSE LET good == SelectSeq(file.parts, LAMBDA p : p.out # "raise")
             pages == [i \in 1..Len(good) |->
                          IF good[i].out = "text" THEN good[i].text ELSE <<>>]
         IN Strip(JoinStr(<<"\n">>, pages))

\* extract_text_from_docx: a reader failure yields "", the paragraphs are
\* joined by newlines and stripped.
extract_text_from_docx(file) ==
    IF file.fmt # "docx" THEN <<>>
    ELSE Strip(JoinStr(<<"\n">>, [i \in 1..Len(file.parts) |-> file.parts[i].text]))

\* which extractor read_cv_text_from_request dispatches to
ExtractorFor(filename) ==
    IF EndsWith(Lower(filename), EXT_pdf) THEN "pdf"
    ELSE IF EndsWith(Lower(filename), EXT_docx) THEN "docx"
    ELSE "none"

\* an unknown extension handed to the PDF extractor instead of returning ""
ReadCvTextPdfFallback(file, filename) ==
    IF ExtractorFor(filename) = "docx" THEN extract_text_from_docx(file)
    ELSE extract_text_from_pdf(file)

read_cv_text_from_request(file, filename) ==
    IF ExtractorFor(filename) = "pdf" THEN extract_text_from_pdf(file)
    ELSE IF ExtractorFor(filename) = "docx" THEN extract_text_from_docx(file)
    ELSE <<>>

\* ------------------------------------------------------------------------
\* Prompts: the template chosen and the values substituted into it
\* ------------------------------------------------------------------------

\* request.form.get(key, default); "absent" marks a field the form lacks
FormGet(form, key, default) == IF form[key] = "absent" THEN default ELSE form[key]

\* x or default
OrElse(x, default) == IF x = "" THEN default ELSE x

analysis_prompt(cvText, lang) ==
    [template |-> IF lang = "ar" THEN "analysis_ar" ELSE "analysis_en",
     language |-> "", tone |-> "", template_style |-> "",
     target_role |-> "", job_desc |-> "", cv_text |-> cvText]

enhance_prompt(cvText, lang, targetRole, jobDesc, tone, templateStyle) ==
    [template |-> "enhance",
     language |-> IF lang = "ar" THEN "Arabic" ELSE "English",
     tone |-> OrElse(tone, "Professional and concise"),
     template_style |-> OrElse(templateStyle, "Modern-ATS"),
     target_role |-> OrElse(targetRole, "General"),
     job_desc |-> OrElse(jobDesc, "N/A"),
     cv_text |-> cvText]

NoPrompt ==
    [template |-> "", language |-> "", tone |-> "", template_style |-> "",
     target_role |-> "", job_desc |-> "", cv_text |-> <<>>]

\* ------------------------------------------------------------------------
\* Inputs: uploads, forms and model replies
\* ------------------------------------------------------------------------

\* longest prose put before and after the JSON text of a model reply
MaxProse == 1

\* n characters of body text
X(n) == [i \in 1..n |-> "x"]

Filenames ==
    { <<>>,
      <<"c", "v", ".", "p", "d", "f">>,
      <<"C", "V", ".", "P", "D", "F">>,
      <<"c", "v", ".", "d", "o", "c", "x">>,
      <<"c", "v", ".", "t", "x", "t">>,
      <<"p", "d", "f">> }

NoFile == [fmt |-> "other", parts |-> <<>>]

Files ==
    { NoFile,
      [fmt |-> "other", parts |-> <<Page("text", X(MinTextLen))>>],
      [fmt |-> "pdf", parts |-> <<Page("text", X(MinTextLen - 1))>>],
      [fmt |-> "pdf", parts |-> <<Page("text", X(MinTextLen))>>],
      [fmt |-> "pdf", parts |-> <<Page("text", <<" ">> \o X(MinTextLen - 1) \o <<"\n">>)>>],
      [fmt |-> "pdf",
       parts |-> <<Page("text", X(MinTextLen - 26)), Page("text", X(25))>>],
      [fmt |-> "pdf",
       parts |-> <<Page("raise", <<>>), Page("none", <<>>), Page("text", X(MinTextLen + 1))>>],
      [fmt |-> "pdf", parts |-> <<Page("none", <<>>)>>],
      [fmt |-> "docx", parts |-> <<Page("text", X(MinTextLen))>>],
      [fmt |-> "docx",
       parts |-> <<Page("text", X(MinTextLen - 26)), Page("text", X(24))>>] }

Form(lang, targetRole, jobDesc, tone, templateStyle) ==
    [lang |-> lang, target_role |-> targetRole, job_desc |-> jobDesc,
     tone |-> tone, template_style |-> templateStyle]

Forms ==
    { Form("absent", "absent", "absent", "absent", "absent"),
      Form("ar", "", "", "", ""),
      Form("fr", "Engineer", "Backend role", "Formal", "Classic") }

Endpoints == {"analyze", "enhance"}

\* JSON text fragments
JStr(s) == <<"\"">> \o s \o <<"\"">>
JMember(k, v) == JStr(k) \o <<":">> \o v
JObject(members) == <<"{">> \o JoinStr(<<",">>, members) \o <<"}">>
JArray(elems) == <<"[">> \o JoinStr(<<",">>, elems) \o <<"]">>
JNull == <<"n", "u", "l", "l">>

\* the JSON-like middle of a model reply
ReplyCores ==
    { <<>>,
      JObject(<<>>),
      <<"{", " ", "\"", "a", "\"", " ", ":", " ", "1", "1", " ", "}">>,
      <<"{", "\"", "a", "\"", ":", "1">>,
      <<"{", "\"", "a", "\"", " ", "1", "}">>,
      <<"{", "\"", "a", "\"", ":", "1", ",", "}">>,
      JObject(<<JMember(KEY_keyword_analysis, JStr(<<"a">>))>>),
      JObject(<<JMember(KEY_keyword_analysis,
                        JObject(<<JMember(KEY_present, JArray(<<JStr(<<"a">>), JStr(<<"b">>)>>)),
                                  JMember(KEY_missing, JArray(<<JStr(<<"a">>)>>)),
                                  JMember(KEY_density_comment, JStr(<<"o", "k">>))>>)),
                JMember(KEY_suggestions, JArray(<<JStr(<<"a">>), JStr(<<"b">>)>>))>>),
      JObject(<<JMember(KEY_keyword_analysis, JObject(<<>>))>>),
      JObject(<<JMember(KEY_keyword_analysis,
                        JObject(<<JMember(KEY_present, JArray(<<<<"1">>>>))>>))>>),
      JObject(<<JMember(KEY_keyword_analysis,
                        JObject(<<JMember(KEY_missing, JNull)>>))>>),
      JObject(<<JMember(KEY_keyword_analysis,
                        JObject(<<JMember(KEY_present, JStr(<<"a", "b">>)),
                                  JMember(KEY_missing, JObject(<<JMember(<<"a">>, JNull)>>)),
                                  JMember(KEY_density_comment,
                                          JObject(<<JMember(<<"a">>,
                                                            JArray(<<<<"1">>, JNull>>))>>))>>))>>),
      JObject(<<JMember(KEY_keyword_analysis,
                        JObject(<<JMember(KEY_present, JArray(<<JStr(<<"a">>)>>))>>)),
                JMember(KEY_keyword_analysis_text, JStr(<<"b">>))>>),
      JObject(<<JMember(KEY_suggestions,
                        JArray(<<JStr(<<"a">>),
                                 JObject(<<JMember(<<"a">>, <<"1">>)>>)>>))>>),
      JObject(<<JMember(KEY_enhanced_cv_md, JStr(<<"a">>))>>),
      JObject(<<JMember(KEY_enhanced_cv_md, JStr(<<"a">>)),
                JMember(KEY_file_name, JStr(<<"b">>))>>),
      JObject(<<JMember(KEY_file_name, JStr(<<"b">>))>>),
      JObject(<<JMember(KEY_enhanced_cv_md, JNull),
                JMember(KEY_file_name, JNull)>>) }

ProseChars == {"a", "{", "}"}

RECURSIVE SeqsUpTo(_, _)
\* the sequences over S of length at most n
SeqsUpTo(S, n) ==
    IF n = 0 THEN {<<>>}
    ELSE LET shorter == SeqsUpTo(S, n - 1)
         IN shorter \cup {Append(s, c) : s \in shorter, c \in S}

Prose == SeqsUpTo(ProseChars, MaxProse)

\* resp.text: prose, a JSON-like middle, prose
ReplyTexts == {pre \o core \o post : pre \in Prose, core \in ReplyCores, post \in Prose}

\* ------------------------------------------------------------------------
\* State
\* ------------------------------------------------------------------------

VARIABLES
    model,        \* the module-level Gemini handle: "configured" or "None"
    pc,           \* the position of the request in its handler
    request,      \* the request being handled
    cv_text,      \* local cv_text
    extractor,    \* the extractor read_cv_text_from_request called
    prompt,       \* local prompt
    resp_text,    \* resp.text
    parsed,       \* local parsed
    exc,          \* the exception the try block caught
    response,     \* the (body, status) the handler returned
    steps,        \* the steps the handler has run, in order
    modelCalls,   \* calls of model.generate_content for this request
    responses,    \* responses returned for this request
    raw,          \* input of a stand-alone best_effort_json call
    loaded        \* its outcome

handlerVars ==
    <<pc, request, cv_text, extractor, prompt, resp_text, parsed, exc, response,
      steps, modelCalls, responses>>

vars == <<model, handlerVars, raw, loaded>>

NoRequest ==
    [endpoint |-> "none", has_cv |-> FALSE, filename |-> <<>>, file |-> NoFile,
     form |-> Form("absent", "absent", "absent", "absent", "absent")]

NoResponse == [status |-> 0, body |-> NullV]

NotLoaded == [called |-> FALSE, ok |-> FALSE, val |-> NullV]

Fresh ==
    /\ pc = "idle"
    /\ request = NoRequest
    /\ cv_text = <<>>
    /\ extractor = "none"
    /\ prompt = NoPrompt
    /\ resp_text = <<>>
    /\ parsed = NullV
    /\ exc = "none"
    /\ response = NoResponse
    /\ steps = <<>>
    /\ modelCalls = 0
    /\ responses = 0

\* lines 13-18: the handle is set once at import, None when set-up raised
Init ==
    /\ model \in {"configured", "None"}
    /\ Fresh
    /\ raw = <<>>
    /\ loaded = NotLoaded

\* ------------------------------------------------------------------------
\* The request handlers analyze_cv and enhance_cv, statement by statement
\* ------------------------------------------------------------------------

\* return jsonify(body), status
Return(step, status, body) ==
    /\ response' = [status |-> status, body |-> body]
    /\ responses' = responses + 1
    /\ steps' = steps \o <<step, "response">>
    /\ pc' = "done"

Goto(step, next) ==
    /\ steps' = Append(steps, step)
    /\ pc' = next
    /\ UNCHANGED <<response, responses>>

\* the analysis message used by both handlers
FailureBodyAnalysisOnly(endpoint) == ErrorBody(MSG_analysis_failed)

\* the body of the generic failure response (the except clause)
FailureBody(endpoint) ==
    ErrorBody(IF endpoint = "analyze" THEN MSG_analysis_failed ELSE MSG_enhancement_failed)

\* a POST to /api/analyze or /api/enhance arrives
Receive ==
    /\ pc = "idle"
    /\ \E ep \in Endpoints, form \in Forms :
          \/ request' = [NoRequest EXCEPT !.endpoint = ep, !.form = form]
          \/ \E fn \in Filenames, f \in Files :
                request' = [endpoint |-> ep, has_cv |-> TRUE, filename |-> fn,
                            file |-> f, form |-> form]
    /\ pc' = "check_model"
    /\ UNCHANGED <<model, cv_text, extractor, prompt, resp_text, parsed, exc,
                   response, steps, modelCalls, responses, raw, loaded>>

\* the handler without its model-is-None guard
CheckModelMissing ==
    /\ pc = "check_model"
    /\ Goto("config_check", "check_file_part")
    /\ UNCHANGED <<model, request, cv_text, extractor, prompt, resp_text, parsed,
                   exc, modelCalls, raw, loaded>>

\* if model is None: return 500
CheckModel ==
    /\ pc = "check_model"
    /\ IF model = "None"
       THEN Return("config_check", 500, ErrorBody(MSG_not_configured))
       ELSE Goto("config_check", "check_file_part")
    /\ UNCHANGED <<model, request, cv_text, extractor, prompt, resp_text, parsed,
                   exc, modelCalls, raw, loaded>>

\* if "cv" not in request.files: return 400
CheckFilePart ==
    /\ pc = "check_file_part"
    /\ IF ~request.has_cv
       THEN Return("file_part_check", 400, ErrorBody(MSG_no_file_part))
       ELSE Goto("file_part_check", "check_filename")
    /\ UNCHANGED <<model, request, cv_text, extractor, prompt, resp_text, parsed,
                   exc, modelCalls, raw, loaded>>

\* if file.filename == "": return 400
CheckFilename ==
    /\ pc = "check_filename"
    /\ IF request.filename = <<>>
       THEN Return("filename_check", 400, ErrorBody(MSG_no_selected_file))
       ELSE Goto("filename_check", "read_text")
    /\ UNCHANGED <<model, request, cv_text, extractor, prompt, resp_text, parsed,
                   exc, modelCalls, raw, loaded>>

\* cv_text = read_cv_text_from_request(file, file.filename)
ReadCvText ==
    /\ pc = "read_text"
    /\ cv_text' = read_cv_text_from_request(request.file, request.filename)
    /\ extractor' = ExtractorFor(request.filename)
    /\ Goto("extract", "check_length")
    /\ UNCHANGED <<model, request, prompt, resp_text, parsed, exc, modelCalls,
                   raw, loaded>>

\* the length test off by one
TooShortOffByOne(t) == t = <<>> \/ Len(t) <= MinTextLen

\* the test of line 162 / 207
TooShort(t) == t = <<>> \/ Len(t) < MinTextLen

\* if not cv_text or len(cv_text) < 50: return 400
CheckLength ==
    /\ pc = "check_length"
    /\ IF TooShort(cv_text)
       THEN Return("length_check", 400, ErrorBody(MSG_insufficient_text))
       ELSE Goto("length_check", "build_prompt")
    /\ UNCHANGED <<model, request, cv_text, extractor, prompt, resp_text, parsed,
                   exc, modelCalls, raw, loaded>>

\* the prompt either handler builds from its form fields
BuildFor(req, t) ==
    IF req.endpoint = "analyze"
    THEN analysis_prompt(t, FormGet(req.form, "lang", "en"))
    ELSE enhance_prompt(t,
                        FormGet(req.form, "lang", "en"),
                        FormGet(req.form, "target_role", ""),
                        FormGet(req.form, "job_desc", ""),
                        FormGet(req.form, "tone", "Professional and concise"),
                        FormGet(req.form, "template_style", "Modern-ATS"))

\* prompt = analysis_prompt(...) / enhance_prompt(...)
BuildPrompt ==
    /\ pc = "build_prompt"
    /\ prompt' = BuildFor(request, cv_text)
    /\ Goto("prompt", "call_model")
    /\ UNCHANGED <<model, request, cv_text, extractor, resp_text, parsed, exc,
                   modelCalls, raw, loaded>>

\* resp = model.generate_content(prompt); resp.text: the call (or reading
\* resp.text) raises, or the reply carries some text
CallModel ==
    /\ pc = "call_model"
    /\ modelCalls' = modelCalls + 1
    /\ \/ /\ exc' = "model_error"
          /\ Goto("model_call", "except")
          /\ UNCHANGED resp_text
       \/ /\ \E t \in ReplyTexts : resp_text' = t
          /\ Goto("model_call", "parse")
          /\ UNCHANGED exc
    /\ UNCHANGED <<model, request, cv_text, extractor, prompt, parsed, raw, loaded>>

\* parsed = best_effort_json(resp.text)
ParseReply ==
    /\ pc = "parse"
    /\ LET r == best_effort_json(resp_text)
       IN IF r.ok
          THEN /\ parsed' = r.val
               /\ Goto("parse", "post_process")
               /\ UNCHANGED exc
          ELSE /\ exc' = "ValueError"
               /\ Goto("parse", "except")
               /\ UNCHANGED parsed
    /\ UNCHANGED <<model, request, cv_text, extractor, prompt, resp_text,
                   modelCalls, raw, loaded>>

\* the statements between best_effort_json and return jsonify(parsed)
PostProcessFor(endpoint, p) ==
    IF endpoint = "analyze" THEN AnalyzePostProcess(p) ELSE EnhancePostProcess(p)

PostProcess ==
    /\ pc = "post_process"
    /\ LET r == PostProcessFor(request.endpoint, parsed)
       IN IF r.ok
          THEN /\ parsed' = r.val
               /\ Goto("post_process", "respond")
               /\ UNCHANGED exc
          ELSE /\ exc' = IF request.endpoint = "analyze" THEN "TypeError" ELSE "ValueError"
               /\ Goto("post_process", "except")
               /\ UNCHANGED parsed
    /\ UNCHANGED <<model, request, cv_text, extractor, prompt, resp_text,
                   modelCalls, raw, loaded>>

\* return jsonify(parsed)
Respond ==
    /\ pc = "respond"
    /\ response' = [status |-> 200, body |-> parsed]
    /\ responses' = responses + 1
    /\ steps' = Append(steps, "response")
    /\ pc' = "done"
    /\ UNCHANGED <<model, request, cv_text, extractor, prompt, resp_text, parsed,
                   exc, modelCalls, raw, loaded>>

\* an except clause that calls the model once more before giving up
ExceptRetry ==
    /\ pc = "except"
    /\ IF modelCalls < 2
       THEN /\ pc' = "call_model"
            /\ exc' = "none"
            /\ UNCHANGED <<response, responses, steps>>
       ELSE /\ response' = [status |-> 500, body |-> FailureBody(request.endpoint)]
            /\ responses' = responses + 1
            /\ steps' = Append(steps, "response")
            /\ pc' = "done"
            /\ UNCHANGED exc
    /\ UNCHANGED <<model, request, cv_text, extractor, prompt, resp_text, parsed,
                   modelCalls, raw, loaded>>

\* except Exception: return the generic failure, 500
Except ==
    /\ pc = "except"
    /\ response' = [status |-> 500, body |-> FailureBody(request.endpoint)]
    /\ responses' = responses + 1
    /\ steps' = Append(steps, "response")
    /\ pc' = "done"
    /\ UNCHANGED <<model, request, cv_text, extractor, prompt, resp_text, parsed,
                   exc, modelCalls, raw, loaded>>

\* the request is over; nothing of it is kept
Finish ==
    /\ pc = "done"
    /\ pc' = "idle"
    /\ request' = NoRequest
    /\ cv_text' = <<>>
    /\ extractor' = "none"
    /\ prompt' = NoPrompt
    /\ resp_text' = <<>>
    /\ parsed' = NullV
    /\ exc' = "none"
    /\ response' = NoResponse
    /\ steps' = <<>>
    /\ modelCalls' = 0
    /\ responses' = 0
    /\ UNCHANGED <<model, raw, loaded>>

Next ==
    \/ Receive
    \/ CheckModel
    \/ CheckFilePart
    \/ CheckFilename
    \/ ReadCvText
    \/ CheckLength
    \/ BuildPrompt
    \/ CallModel
    \/ ParseReply
    \/ PostProcess
    \/ Respond
    \/ Except
    \/ Finish

Spec == Init /\ [][Next]_vars

\* ------------------------------------------------------------------------
\* best_effort_json on its own
\* ------------------------------------------------------------------------

JsonInit ==
    /\ model = "configured"
    /\ Fresh
    /\ raw \in ReplyTexts
    /\ loaded = NotLoaded

ApplyBestEffortJson ==
    /\ ~loaded.called
    /\ LET r == best_effort_json(raw)
       IN loaded' = [called |-> TRUE, ok |-> r.ok, val |-> r.val]
    /\ UNCHANGED <<model, handlerVars, raw>>

NextText ==
    /\ loaded.called
    /\ raw' \in ReplyTexts
    /\ loaded' = NotLoaded
    /\ UNCHANGED <<model, handlerVars>>

JsonNext == ApplyBestEffortJson \/ NextText

JsonSpec == JsonInit /\ [][JsonNext]_vars

\* ------------------------------------------------------------------------
\* Properties
\* ------------------------------------------------------------------------

Done == pc = "done"

\* the request's file name ends, in any letter case, in .pdf or .docx
SupportedName ==
    \/ EndsWith(Lower(request.filename), <<".", "p", "d", "f">>)
    \/ EndsWith(Lower(request.filename), <<".", "d", "o", "c", "x">>)

\* a body that is an error object: the single key "error" with a str message
IsErrorBody(b) ==
    /\ b.t = "obj"
    /\ Keys(b) = {KEY_error}
    /\ Get(b, KEY_error).t = "str"
    /\ Get(b, KEY_error).v # <<>>

ErrorObject(msg) == [t |-> "obj", v |-> <<[k |-> KEY_error, v |-> [t |-> "str", v |-> msg]]>>]

\* what the reply text parses to, as best_effort_json sees it
Reply == best_effort_json(resp_text)

\* the model returned a reply text for this request
GotReply == modelCalls = 1 /\ exc # "model_error"

\* C1: with the model configured, a request with an input error (no 'cv'
\* part, empty file name, unsupported extension, extracted text shorter than
\* 50 characters) gets 400 with an error message and no model call; text of
\* 50 characters or more is not rejected.
C1_InputErrorsAre400 ==
    (Done /\ model = "configured") =>
        /\ (\/ ~request.has_cv
            \/ request.filename = <<>>
            \/ ~SupportedName
            \/ Len(cv_text) < 50)
           => /\ response.status = 400
              /\ IsErrorBody(response.body)
              /\ modelCalls = 0
        /\ (request.has_cv /\ request.filename # <<>> /\ Len(cv_text) >= 50)
           => /\ response.status # 400
              /\ modelCalls = 1

C1_Witness ==
    /\ Done /\ model = "configured"
    /\ request.has_cv /\ SupportedName
    /\ Len(cv_text) = 49
    /\ response.status = 400

\* C2: with model None every request gets 500 and the configuration-error
\* message; nothing else of the handler runs.
C2_UnconfiguredIs500 ==
    (model = "None") =>
        /\ pc \in {"idle", "check_model", "done"}
        /\ extractor = "none" /\ cv_text = <<>> /\ modelCalls = 0
        /\ Done => /\ response.status = 500
                   /\ response.body = ErrorObject(MSG_not_configured)
                   /\ steps = <<"config_check", "response">>

C2_Witness ==
    /\ Done /\ model = "None"
    /\ request.has_cv /\ SupportedName
    /\ request.file.fmt = "pdf"
    /\ response.status = 500

PcValues ==
    {"idle", "check_model", "check_file_part", "check_filename", "read_text",
     "check_length", "build_prompt", "call_model", "parse", "post_process",
     "respond", "except", "done"}

\* C3: once the preconditions passed, a raising model call, a reply without
\* parseable JSON or raising post-processing gives 500 with exactly the
\* generic error object of the endpoint; no exception leaves the handler.
C3_FailuresAreGeneric500 ==
    /\ pc \in PcValues
    /\ (Done /\ (exc # "none" \/ (modelCalls = 1 /\ ~Reply.ok))) =>
          /\ response.status = 500
          /\ response.body =
                ErrorObject(IF request.endpoint = "analyze"
                            THEN MSG_analysis_failed ELSE MSG_enhancement_failed)

C3_Witness ==
    /\ Done /\ request.endpoint = "enhance"
    /\ exc = "ValueError" /\ Reply.ok
    /\ response.status = 500

MSG_unsupported_type ==
    <<"U", "n", "s", "u", "p", "p", "o", "r", "t", "e", "d", " ", "f", "i",
      "l", "e", " ", "t", "y", "p", "e">>

TxtName == request.has_cv /\ EndsWith(request.filename, <<".", "t", "x", "t">>)

\* C4 as stated: a .txt upload is rejected with 400 'Unsupported file type'
\* before any extraction.
C4_Original ==
    (Done /\ model = "configured" /\ TxtName) =>
        /\ response.status = 400
        /\ response.body = ErrorObject(MSG_unsupported_type)
        /\ extractor = "none"

\* C4 as amended: a file whose name ends in an unsupported extension is
\* rejected with 400 and the message 'Could not extract sufficient text.',
\* no extractor and no model call having run.
C4_UnsupportedIs400 ==
    (Done /\ model = "configured" /\ request.has_cv
       /\ request.filename # <<>> /\ ~SupportedName) =>
        /\ response.status = 400
        /\ response.body = ErrorObject(MSG_insufficient_text)
        /\ extractor = "none"
        /\ modelCalls = 0

C4_Witness ==
    /\ Done /\ model = "configured" /\ TxtName
    /\ request.file.fmt = "pdf"
    /\ Len(request.file.parts) = 1 /\ Len(request.file.parts[1].text) = 50
    /\ response.status = 400

EnhanceDone == Done /\ request.endpoint = "enhance"

AnalyzeDone == Done /\ request.endpoint = "analyze"

\* C5: Enhance answers 200 only with 'enhanced_cv_md' in the parsed output
\* and 500 (enhancement failed) when it parses without it; a 200 body has
\* 'file_name' (the model's, else the default) and every other field as
\* parsed.
C5_EnhanceMandatoryAndDefault ==
    /\ (EnhanceDone /\ response.status = 200) =>
          /\ GotReply /\ Reply.ok
          /\ HasKey(Reply.val, KEY_enhanced_cv_md)
          /\ Keys(response.body) = Keys(Reply.val) \cup {KEY_file_name}
          /\ Get(response.body, KEY_file_name) =
                (IF HasKey(Reply.val, KEY_file_name)
                 THEN Get(Reply.val, KEY_file_name)
                 ELSE [t |-> "str", v |-> DEFAULT_file_name])
          /\ \A key \in Keys(Reply.val) \ {KEY_file_name} :
                Get(response.body, key) = Get(Reply.val, key)
    /\ (EnhanceDone /\ GotReply /\ Reply.ok /\ ~HasKey(Reply.val, KEY_enhanced_cv_md)) =>
          /\ response.status = 500
          /\ response.body = ErrorObject(MSG_enhancement_failed)

C5_Witness ==
    /\ EnhanceDone /\ response.status = 200
    /\ HasKey(Reply.val, KEY_file_name)
    /\ Get(response.body, KEY_file_name) # [t |-> "str", v |-> DEFAULT_file_name]

\* C6 as stated: in a 200 Analyze response every element of 'suggestions' is
\* a string.
C6_SuggestionsAreStrings ==
    (AnalyzeDone /\ response.status = 200 /\ HasKey(response.body, KEY_suggestions)
       /\ Get(response.body, KEY_suggestions).t = "arr") =>
        \A i \in 1..Len(Get(response.body, KEY_suggestions).v) :
            Get(response.body, KEY_suggestions).v[i].t = "str"

\* s[i..j] is a well-formed JSON object
ObjectAt(s, i, j) ==
    /\ i < j /\ s[i] = "{" /\ s[j] = "}"
    /\ JsonLoads(SubSeq(s, i, j)).ok

HoldsObject(s) == \E a \in 1..Len(s), b \in 1..Len(s) : ObjectAt(s, a, b)

\* C7 as stated: for a reply that is one well-formed JSON object with prose
\* around it, best_effort_json returns what parsing that object returns.
C7_EmbeddedObjectIsExtracted ==
    loaded.called =>
        \A i \in 1..Len(raw), j \in 1..Len(raw) :
            (/\ ObjectAt(raw, i, j)
             /\ ~HoldsObject(SubSeq(raw, 1, i - 1))
             /\ ~HoldsObject(SubSeq(raw, j + 1, Len(raw))))
            => /\ loaded.ok
               /\ loaded.val = JsonLoads(SubSeq(raw, i, j)).val

Opens == {i \in 1..Len(raw) : raw[i] = "{"}

Closes == {i \in 1..Len(raw) : raw[i] = "}"}

FirstOpen == CHOOSE i \in Opens : \A j \in Opens : i <= j

LastClose == CHOOSE i \in Closes : \A j \in Closes : j <= i

StepRank ==
    [config_check |-> 1, file_part_check |-> 2, filename_check |-> 3, extract |-> 4,
     length_check |-> 5, prompt |-> 6, model_call |-> 7, parse |-> 8,
     post_process |-> 9, response |-> 10]

\* C9: the steps of a request run in the fixed order; the model is called at
\* most once and only after every precondition passed; the request ends in
\* exactly one response, 200, 400 or 500; a 200 follows exactly one model
\* call whose text held a parseable JSON object.
C9_OrderedSingleCall ==
    /\ \A i \in 1..Len(steps), j \in 1..Len(steps) :
          i < j => StepRank[steps[i]] < StepRank[steps[j]]
    /\ modelCalls <= 1
    /\ modelCalls = 1 =>
          /\ model = "configured"
          /\ request.has_cv /\ request.filename # <<>>
          /\ Len(cv_text) >= 50
          /\ SubSeq(steps, 1, 7) =
                <<"config_check", "file_part_check", "filename_check", "extract",
                  "length_check", "prompt", "model_call">>
    /\ responses = (IF Done THEN 1 ELSE 0)
    /\ Done => /\ response.status \in {200, 400, 500}
               /\ steps[Len(steps)] = "response"
    /\ ~Done => response.status = 0
    /\ (Done /\ response.status = 200) =>
          /\ modelCalls = 1 /\ exc = "none"
          /\ Reply.ok /\ Reply.val.t = "obj"

C9_Witness ==
    /\ Done /\ response.status = 200
    /\ Len(steps) = 10

\* parsed.get("keyword_analysis") of the reply
KeywordAnalysis ==
    IF Reply.ok /\ HasKey(Reply.val, KEY_keyword_analysis)
    THEN Get(Reply.val, KEY_keyword_analysis) ELSE NullV

\* C10 as stated: a structured 'keyword_analysis' always gives 200 with an
\* added string 'keyword_analysis_text'.
C10_Original ==
    (AnalyzeDone /\ GotReply /\ Reply.ok /\ KeywordAnalysis.t = "obj") =>
        /\ response.status = 200
        /\ HasKey(response.body, KEY_keyword_analysis_text)
        /\ Get(response.body, KEY_keyword_analysis_text).t = "str"

\* the sub-field is absent or an array of strings
StringArrayOrAbsent(d, key) ==
    HasKey(d, key) =>
        /\ Get(d, key).t = "arr"
        /\ \A i \in 1..Len(Get(d, key).v) : Get(d, key).v[i].t = "str"

\* the strings of the sub-field, none when it is absent
StringsOf(d, key) ==
    IF HasKey(d, key) THEN [i \in 1..Len(Get(d, key).v) |-> Get(d, key).v[i].v] ELSE <<>>

\* C10 as amended: a structured 'keyword_analysis' whose 'present' and
\* 'missing' are each absent or an array of strings gives 200 with the added
\* string 'keyword_analysis_text' built from the sub-fields, everything else
\* as parsed; without a structured 'keyword_analysis' the parsed object is
\* returned unchanged.
C10_KeywordTextAdded ==
    /\ (AnalyzeDone /\ GotReply /\ Reply.ok /\ KeywordAnalysis.t = "obj"
          /\ StringArrayOrAbsent(KeywordAnalysis, KEY_present)
          /\ StringArrayOrAbsent(KeywordAnalysis, KEY_missing)) =>
          /\ response.status = 200
          /\ Keys(response.body) = Keys(Reply.val) \cup {KEY_keyword_analysis_text}
          /\ Get(response.body, KEY_keyword_analysis_text).t = "str"
          /\ \E tail \in {PyStr(GetOr(KeywordAnalysis, KEY_density_comment, StrV(<<>>)))} :
                Get(response.body, KEY_keyword_analysis_text).v =
                    <<"P", "r", "e", "s", "e", "n", "t", ":", " ">>
                    \o JoinStr(<<",", " ">>, StringsOf(KeywordAnalysis, KEY_present))
                    \o <<" ", "|", " ", "M", "i", "s", "s", "i", "n", "g", ":", " ">>
                    \o JoinStr(<<",", " ">>, StringsOf(KeywordAnalysis, KEY_missing))
                    \o <<" ", "|", " ">> \o tail
          /\ \A key \in Keys(Reply.val) \ {KEY_keyword_analysis_text} :
                Get(response.body, key) = Get(Reply.val, key)
    /\ (AnalyzeDone /\ GotReply /\ Reply.ok /\ KeywordAnalysis.t # "obj") =>
          /\ response.status = 200
          /\ response.body = Reply.val

C10_Witness ==
    /\ AnalyzeDone /\ response.status = 200
    /\ KeywordAnalysis.t = "obj"
    /\ HasKey(KeywordAnalysis, KEY_present)
    /\ StringArrayOrAbsent(KeywordAnalysis, KEY_present)
    /\ Len(StringsOf(KeywordAnalysis, KEY_present)) = 2
    /\ HasKey(response.body, KEY_keyword_analysis_text)

====
